---- MODULE Spec2Model ----
(***************************************************************************)
(* Model of src/API.js: the two helpers get(url) and post(url, data) that  *)
(* wrap XMLHttpRequest in a Promise, together with the parts of the        *)
(* browser they rest on (XMLHttpRequest's state machine and events, the    *)
(* Promise's settle-once rule, JSON.stringify and JSON.parse) and a        *)
(* back end that answers the requests.                                     *)
(***************************************************************************)
EXTENDS Integers, Sequences, FiniteSets, TLC

VARIABLES
  backend,   \* which back end answers: "echo" or "arbitrary"
  ncalls,    \* number of calls of get/post made so far
  call,      \* call[c]: the function called and its arguments
  http,      \* http[c]: the XMLHttpRequest object created by call c
  trace,     \* trace[c]: the XMLHttpRequest operations call c performed, in order
  promise,   \* promise[c]: the Promise returned by call c
  wire,      \* every request handed to the network, in sending order
  net,       \* net[c]: where call c's exchange is, and the response to it
  store,     \* the echo back end's records, by url
  uncaught,  \* calls whose event handler threw (reported to the global handler)
  before     \* before[c], c a get: the posts to c's url already fulfilled when c was made

vars == <<backend, ncalls, call, http, trace, promise, wire, net, store, uncaught, before>>

\* Number of calls of get/post in a run.
MaxCalls == 2

Calls == 1..MaxCalls

----------------------------------------------------------------------------
(* JavaScript values, as far as JSON is concerned. *)

Undefined == [t |-> "undefined"]
Null == [t |-> "null"]
NaN == [t |-> "NaN"]
Bool(b) == [t |-> "boolean", b |-> b]
Num(n) == [t |-> "number", n |-> n]
Str(s) == [t |-> "string", s |-> s]
\* An object is its own properties in insertion order, each <<key, value>>.
Obj(m) == [t |-> "object", m |-> m]
Arr(e) == [t |-> "array", e |-> e]

(* JSON text, as a sequence of lexical tokens. *)
P(c) == [k |-> "punct", c |-> c]
TLit(w) == [k |-> "literal", w |-> w]
TNum(n) == [k |-> "number", n |-> n]
TStr(s) == [k |-> "string", s |-> s]

----------------------------------------------------------------------------
(* JSON.stringify *)

RECURSIVE SerializeJSONProperty(_)
RECURSIVE SerializeJSONObject(_, _, _)
RECURSIVE SerializeJSONArray(_, _)

\* The text of a value, or [def |-> FALSE] where JSON.stringify gives undefined.
SerializeJSONProperty(v) ==
  CASE v.t = "null" -> [def |-> TRUE, text |-> <<TLit("null")>>]
    [] v.t = "boolean" -> [def |-> TRUE, text |-> <<TLit(IF v.b THEN "true" ELSE "false")>>]
    [] v.t = "string" -> [def |-> TRUE, text |-> <<TStr(v.s)>>]
    [] v.t = "number" -> [def |-> TRUE, text |-> <<TNum(v.n)>>]
    [] v.t = "NaN" -> [def |-> TRUE, text |-> <<TLit("null")>>]
    [] v.t = "object" ->
         [def |-> TRUE, text |-> <<P("{")>> \o SerializeJSONObject(v.m, 1, FALSE) \o <<P("}")>>]
    [] v.t = "array" ->
         [def |-> TRUE, text |-> <<P("[")>> \o SerializeJSONArray(v.e, 1) \o <<P("]")>>]
    [] OTHER -> [def |-> FALSE]

\* The members from the i-th on; a member whose value has no text is left out.
SerializeJSONObject(m, i, any) ==
  IF i > Len(m) THEN <<>>
  ELSE LET s == SerializeJSONProperty(m[i][2]) IN
       IF s.def
       THEN (IF any THEN <<P(",")>> ELSE <<>>) \o <<TStr(m[i][1]), P(":")>> \o s.text
              \o SerializeJSONObject(m, i + 1, TRUE)
       ELSE SerializeJSONObject(m, i + 1, any)

\* The elements from the i-th on; an element whose value has no text is null.
SerializeJSONArray(e, i) ==
  IF i > Len(e) THEN <<>>
  ELSE LET s == SerializeJSONProperty(e[i]) IN
       (IF i > 1 THEN <<P(",")>> ELSE <<>>)
         \o (IF s.def THEN s.text ELSE <<TLit("null")>>)
         \o SerializeJSONArray(e, i + 1)

JSONStringify(v) == SerializeJSONProperty(v)

----------------------------------------------------------------------------
(* JSON.parse *)

SyntaxError == [ok |-> FALSE]

\* CreateDataProperty: a repeated key keeps its place and takes the new value.
SetMember(m, key, v) ==
  IF \E i \in 1..Len(m) : m[i][1] = key
  THEN [i \in 1..Len(m) |-> IF m[i][1] = key THEN <<key, v>> ELSE m[i]]
  ELSE Append(m, <<key, v>>)

IsPunct(toks, i, c) == i <= Len(toks) /\ toks[i].k = "punct" /\ toks[i].c = c

RECURSIVE ParseValue(_, _)
RECURSIVE ParseMembers(_, _, _)
RECURSIVE ParseElements(_, _, _)

\* The value that starts at token i and the index after it, or SyntaxError.
ParseValue(toks, i) ==
  IF i > Len(toks) THEN SyntaxError
  ELSE LET tok == toks[i] IN
    CASE tok.k = "literal" ->
           (CASE tok.w = "null" -> [ok |-> TRUE, v |-> Null, i |-> i + 1]
              [] tok.w = "true" -> [ok |-> TRUE, v |-> Bool(TRUE), i |-> i + 1]
              [] tok.w = "false" -> [ok |-> TRUE, v |-> Bool(FALSE), i |-> i + 1]
              [] OTHER -> SyntaxError)
      [] tok.k = "number" -> [ok |-> TRUE, v |-> Num(tok.n), i |-> i + 1]
      [] tok.k = "string" -> [ok |-> TRUE, v |-> Str(tok.s), i |-> i + 1]
      [] tok.k = "punct" /\ tok.c = "{" ->
           IF IsPunct(toks, i + 1, "}")
           THEN [ok |-> TRUE, v |-> Obj(<<>>), i |-> i + 2]
           ELSE ParseMembers(toks, i + 1, <<>>)
      [] tok.k = "punct" /\ tok.c = "[" ->
           IF IsPunct(toks, i + 1, "]")
           THEN [ok |-> TRUE, v |-> Arr(<<>>), i |-> i + 2]
           ELSE ParseElements(toks, i + 1, <<>>)
      [] OTHER -> SyntaxError

\* string : value, then , and more members or the closing brace.
ParseMembers(toks, i, acc) ==
  IF ~(i <= Len(toks) /\ toks[i].k = "string" /\ IsPunct(toks, i + 1, ":"))
  THEN SyntaxError
  ELSE LET r == ParseValue(toks, i + 2) IN
       IF ~r.ok THEN SyntaxError
       ELSE LET m == SetMember(acc, toks[i].s, r.v) IN
            IF IsPunct(toks, r.i, ",") THEN ParseMembers(toks, r.i + 1, m)
            ELSE IF IsPunct(toks, r.i, "}") THEN [ok |-> TRUE, v |-> Obj(m), i |-> r.i + 1]
            ELSE SyntaxError

ParseElements(toks, i, acc) ==
  LET r == ParseValue(toks, i) IN
  IF ~r.ok THEN SyntaxError
  ELSE LET e == Append(acc, r.v) IN
       IF IsPunct(toks, r.i, ",") THEN ParseElements(toks, r.i + 1, e)
       ELSE IF IsPunct(toks, r.i, "]") THEN [ok |-> TRUE, v |-> Arr(e), i |-> r.i + 1]
       ELSE SyntaxError

\* The decoded value of a whole text, or SyntaxError (which JSON.parse throws).
JSONParse(text) ==
  LET r == ParseValue(text, 1) IN
  IF r.ok /\ r.i = Len(text) + 1 THEN [ok |-> TRUE, v |-> r.v] ELSE SyntaxError

----------------------------------------------------------------------------
(* Promise: pending, then settled once; a second resolve or reject is ignored. *)

NoPromise == [state |-> "none"]
Pending == [state |-> "pending"]

Resolve(p, value) ==
  IF p.state = "pending" THEN [state |-> "fulfilled", value |-> value] ELSE p

Reject(p, reason) ==
  IF p.state = "pending" THEN [state |-> "rejected", reason |-> reason] ELSE p

----------------------------------------------------------------------------
(* XMLHttpRequest *)

Events == {"readystatechange", "load", "error", "loadend"}

NoBody == [present |-> FALSE]
Body(text) == [present |-> TRUE, text |-> text]

\* new XMLHttpRequest()
XhrNew ==
  [readyState |-> "UNSENT", sendFlag |-> FALSE, method |-> "", url |-> "",
   headers |-> <<>>, handlers |-> [e \in Events |-> "null"],
   status |-> 0, response |-> <<>>]

\* open(method, url)
XhrOpen(x, method, url) ==
  [x EXCEPT !.readyState = "OPENED", !.sendFlag = FALSE, !.method = method,
            !.url = url, !.headers = <<>>]

\* setRequestHeader and send throw InvalidStateError unless opened and not yet sent.
XhrCanSend(x) == x.readyState = "OPENED" /\ ~x.sendFlag

XhrSetRequestHeader(x, name, value) ==
  [x EXCEPT !.headers = Append(@, <<name, value>>)]

XhrSend(x) == [x EXCEPT !.sendFlag = TRUE]

\* What send(body) hands to the network; a GET request carries no body.
XhrRequest(x, body, c) ==
  [from |-> c, method |-> x.method, url |-> x.url, headers |-> x.headers,
   body |-> IF x.method = "GET" THEN NoBody ELSE body]

\* The response has arrived whole.
XhrDone(x, status, text) ==
  [x EXCEPT !.readyState = "DONE", !.sendFlag = FALSE, !.status = status,
            !.response = text]

\* The request ended in a network error.
XhrNetworkError(x) ==
  [x EXCEPT !.readyState = "DONE", !.sendFlag = FALSE, !.status = 0,
            !.response = <<>>]

\* The events fired, in order, when the response has arrived, and on a network error.
LoadEvents == <<"readystatechange", "load", "loadend">>
ErrorEvents == <<"readystatechange", "error", "loadend">>

----------------------------------------------------------------------------
(* The functions of API.js *)

\* A variant that passes a fixed status instead of the response's.
GetOnloadFixedStatus(p, x) ==
  LET d == JSONParse(x.response) IN
  IF d.ok THEN [p |-> Resolve(p, [status |-> 200, data |-> d.v]), threw |-> FALSE]
  ELSE [p |-> p, threw |-> TRUE]

\* A variant that treats an error status as a failure.
GetOnloadRejectsErrors(p, x) ==
  LET d == JSONParse(x.response) IN
  IF ~d.ok THEN [p |-> p, threw |-> TRUE]
  ELSE IF x.status >= 400 THEN [p |-> Reject(p, "status"), threw |-> FALSE]
  ELSE [p |-> Resolve(p, [status |-> x.status, data |-> d.v]), threw |-> FALSE]

\* get's http.onload: resolve({ status: http.status, data: JSON.parse(http.response) }).
\* JSON.parse is evaluated first; when it throws, resolve is not reached.
GetOnload(p, x) ==
  LET d == JSONParse(x.response) IN
  IF d.ok THEN [p |-> Resolve(p, [status |-> x.status, data |-> d.v]), threw |-> FALSE]
  ELSE [p |-> p, threw |-> TRUE]

\* A variant of post's handler that treats an error status as a failure.
PostOnloadRejectsErrors(p, x) ==
  LET d == JSONParse(x.response) IN
  IF ~d.ok THEN [p |-> p, threw |-> TRUE]
  ELSE IF x.status >= 400 THEN [p |-> Reject(p, "status"), threw |-> FALSE]
  ELSE [p |-> Resolve(p, [status |-> x.status, data |-> d.v]), threw |-> FALSE]

\* post's http.onload, the same statement as get's.
PostOnload(p, x) ==
  LET d == JSONParse(x.response) IN
  IF d.ok THEN [p |-> Resolve(p, [status |-> x.status, data |-> d.v]), threw |-> FALSE]
  ELSE [p |-> p, threw |-> TRUE]

\* A call of one of the functions the executor has in scope, on promise p, reading
\* XMLHttpRequest x: the two handlers, and the executor's reject parameter.
CallFunction(fn, p, x) ==
  CASE fn = "get.onload" -> GetOnload(p, x)
    [] fn = "post.onload" -> PostOnload(p, x)
    [] fn = "reject" -> [p |-> Reject(p, "event"), threw |-> FALSE]
    [] OTHER -> [p |-> p, threw |-> FALSE]

\* A variant of get's executor that also wires the error event to reject.
GetExecutorOnError(url) ==
  << [op |-> "sethandler", event |-> "load", fn |-> "get.onload"],
     [op |-> "sethandler", event |-> "error", fn |-> "reject"],
     [op |-> "open", method |-> "GET", url |-> url],
     [op |-> "send", body |-> NoBody] >>

\* A variant of get's executor that builds the result right after send().
GetExecutorEager(url) ==
  << [op |-> "open", method |-> "GET", url |-> url],
     [op |-> "send", body |-> NoBody],
     [op |-> "call", fn |-> "get.onload"] >>

\* The statements of get's executor after new XMLHttpRequest(), in order.
GetExecutor(url) ==
  << [op |-> "sethandler", event |-> "load", fn |-> "get.onload"],
     [op |-> "open", method |-> "GET", url |-> url],
     [op |-> "send", body |-> NoBody] >>

\* send(data) with data as JSON.stringify left it: a text, or undefined (no body).
SendArgument(text) == IF text.def THEN Body(text.text) ELSE NoBody

\* A variant of post's executor without the Content-Type header.
PostExecutorNoHeader(url, text) ==
  << [op |-> "sethandler", event |-> "load", fn |-> "post.onload"],
     [op |-> "open", method |-> "POST", url |-> url],
     [op |-> "send", body |-> SendArgument(text)] >>

\* A variant of post's executor that opens the request as a GET.
PostExecutorAsGet(url, text) ==
  << [op |-> "sethandler", event |-> "load", fn |-> "post.onload"],
     [op |-> "open", method |-> "GET", url |-> url],
     [op |-> "setRequestHeader", name |-> "Content-Type", value |-> "application/json"],
     [op |-> "send", body |-> SendArgument(text)] >>

\* A variant of post's executor that sets the header before open().
PostExecutorHeaderFirst(url, text) ==
  << [op |-> "sethandler", event |-> "load", fn |-> "post.onload"],
     [op |-> "setRequestHeader", name |-> "Content-Type", value |-> "application/json"],
     [op |-> "open", method |-> "POST", url |-> url],
     [op |-> "send", body |-> SendArgument(text)] >>

\* The statements of post's executor after new XMLHttpRequest(), in order.
PostExecutor(url, text) ==
  << [op |-> "sethandler", event |-> "load", fn |-> "post.onload"],
     [op |-> "open", method |-> "POST", url |-> url],
     [op |-> "setRequestHeader", name |-> "Content-Type", value |-> "application/json"],
     [op |-> "send", body |-> SendArgument(text)] >>

\* One statement of an executor, on the state st of the call c that runs it. Each
\* operation on the XMLHttpRequest is recorded with the state it was invoked in.
Step(st, s, c) ==
  LET x == st.x
      seen == [op |-> s.op, readyState |-> x.readyState, sendFlag |-> x.sendFlag,
               onload |-> x.handlers["load"] # "null"]
      t == [st EXCEPT !.trace = Append(@, seen)]
  IN CASE s.op = "sethandler" ->
            [t EXCEPT !.x = [x EXCEPT !.handlers[s.event] = s.fn]]
       [] s.op = "open" ->
            [t EXCEPT !.x = XhrOpen(x, s.method, s.url)]
       [] s.op = "setRequestHeader" ->
            IF XhrCanSend(x)
            THEN [t EXCEPT !.x = XhrSetRequestHeader(x, s.name, s.value)]
            ELSE [t EXCEPT !.exc = "InvalidStateError"]
       [] s.op = "send" ->
            IF XhrCanSend(x)
            THEN [t EXCEPT !.x = XhrSend(x), !.sent = Append(@, XhrRequest(x, s.body, c))]
            ELSE [t EXCEPT !.exc = "InvalidStateError"]
       [] s.op = "call" ->
            LET r == CallFunction(s.fn, st.p, x) IN
            IF r.threw THEN [st EXCEPT !.exc = "SyntaxError"] ELSE [st EXCEPT !.p = r.p]

RECURSIVE RunStatements(_, _, _, _)
\* The statements from the i-th on; an exception ends the executor.
RunStatements(st, stmts, i, c) ==
  IF i > Len(stmts) \/ st.exc # "none" THEN st
  ELSE RunStatements(Step(st, stmts[i], c), stmts, i + 1, c)

\* new Promise(executor): the executor runs at once on a fresh XMLHttpRequest; an
\* exception it throws rejects the promise.
NewPromise(stmts, c) ==
  LET st == RunStatements([x |-> XhrNew, p |-> Pending, sent |-> <<>>, trace |-> <<>>,
                           exc |-> "none"], stmts, 1, c)
  IN IF st.exc = "none" THEN st ELSE [st EXCEPT !.p = Reject(@, st.exc)]

----------------------------------------------------------------------------
(* The inputs: urls, the data posted, and what a back end may answer. *)

Urls == {"/alice", "/bob"}

\* { score: 5 } and { score: NaN }
PostData ==
  { Obj(<< <<"score", Num(5)>> >>),
    Obj(<< <<"score", NaN>> >>) }

UserValue == Obj(<< <<"id", Str("alice")>>, <<"score", Num(5)>> >>)
ErrorValue == Obj(<< <<"Error", Str("bad score")>> >>)

\* {"id":"alice","score":5}
UserText ==
  << P("{"), TStr("id"), P(":"), TStr("alice"), P(","), TStr("score"), P(":"), TNum(5), P("}") >>
\* {"Error":"bad score"}
ErrorText == << P("{"), TStr("Error"), P(":"), TStr("bad score"), P("}") >>
\* A JSON text cut short: {"id":
CutText == << P("{"), TStr("id"), P(":") >>

Statuses == {200, 400, 500}
Bodies == {UserText, ErrorText, CutText}

----------------------------------------------------------------------------
(* State *)

NoCall == [fn |-> "none"]
Idle == [stage |-> "idle", status |-> 0, body |-> <<>>]

Init ==
  /\ backend \in {"echo", "arbitrary"}
  /\ ncalls = 0
  /\ call = [c \in Calls |-> NoCall]
  /\ http = [c \in Calls |-> XhrNew]
  /\ trace = [c \in Calls |-> <<>>]
  /\ promise = [c \in Calls |-> NoPromise]
  /\ wire = <<>>
  /\ net = [c \in Calls |-> Idle]
  /\ store = [u \in Urls |-> Undefined]
  /\ uncaught = {}
  /\ before = [c \in Calls |-> {}]

\* The XMLHttpRequest a handler of call c reads: http is a local of c's own
\* executor. The variant is http as one variable shared by all calls.
HttpOfShared(c) == ncalls
HttpOf(c) == c

\* What a call does with the Promise its executor returned, as the calls-th call.
Return(fn, url, data, r) ==
  LET c == ncalls + 1 IN
  /\ ncalls' = c
  /\ call' = [call EXCEPT ![c] = [fn |-> fn, url |-> url, data |-> data]]
  /\ http' = [http EXCEPT ![c] = r.x]
  /\ trace' = [trace EXCEPT ![c] = r.trace]
  /\ promise' = [promise EXCEPT ![c] = r.p]
  /\ wire' = wire \o r.sent
  /\ net' = [net EXCEPT ![c] = IF r.sent # <<>> THEN [@ EXCEPT !.stage = "request"] ELSE @]
  /\ before' = [before EXCEPT ![c] =
                  IF fn = "get"
                  THEN {d \in 1..ncalls : /\ call[d].fn = "post" /\ call[d].url = url
                                          /\ promise[d].state = "fulfilled"}
                  ELSE {}]
  /\ UNCHANGED <<backend, store, uncaught>>

get(url) ==
  /\ ncalls < MaxCalls
  /\ Return("get", url, Undefined, NewPromise(GetExecutor(url), ncalls + 1))

post(url, data) ==
  /\ ncalls < MaxCalls
  /\ LET text == JSONStringify(data) IN
     Return("post", url, data, NewPromise(PostExecutor(url, text), ncalls + 1))

\* The request call c sent.
RequestOf(c) == CHOOSE r \in {wire[i] : i \in 1..Len(wire)} : r.from = c

\* The echo back end: a POST stores the decoded body under the url and returns it
\* (201 when the url was new, 200 otherwise; 400 when the body does not decode); a
\* GET returns what is stored (200), or null (404).
EchoAnswer(r) ==
  IF r.method = "POST"
  THEN LET d == IF r.body.present THEN JSONParse(r.body.text) ELSE SyntaxError IN
       IF d.ok
       THEN [stored |-> d.v, status |-> IF store[r.url] = Undefined THEN 201 ELSE 200,
             body |-> JSONStringify(d.v).text]
       ELSE [stored |-> store[r.url], status |-> 400, body |-> ErrorText]
  ELSE IF store[r.url] = Undefined
       THEN [stored |-> Undefined, status |-> 404, body |-> <<TLit("null")>>]
       ELSE [stored |-> store[r.url], status |-> 200, body |-> JSONStringify(store[r.url]).text]

ServerEcho(c) ==
  /\ backend = "echo"
  /\ net[c].stage = "request"
  /\ LET r == RequestOf(c)
         a == EchoAnswer(r)
     IN /\ store' = [store EXCEPT ![r.url] = a.stored]
        /\ net' = [net EXCEPT ![c] = [stage |-> "response", status |-> a.status, body |-> a.body]]
  /\ UNCHANGED <<backend, ncalls, call, http, trace, promise, wire, uncaught, before>>

RECURSIVE Dispatch(_, _, _, _, _)
\* The events from the i-th on, fired at call c's XMLHttpRequest, with hs the
\* XMLHttpRequest objects as they are now. A handler that throws ends alone: the
\* exception goes to the global error handler and the next event is fired.
Dispatch(st, events, i, c, hs) ==
  IF i > Len(events) THEN st
  ELSE LET fn == hs[c].handlers[events[i]] IN
       IF fn = "null" THEN Dispatch(st, events, i + 1, c, hs)
       ELSE LET r == CallFunction(fn, st.p, hs[HttpOf(c)]) IN
            Dispatch([p |-> r.p, threw |-> st.threw \/ r.threw], events, i + 1, c, hs)

\* The XMLHttpRequest of call c becomes x and the events are fired at it; the
\* exchange is then as `stage` says.
Complete(c, x, events, stage) ==
  LET hs == [http EXCEPT ![c] = x]
      st == Dispatch([p |-> promise[c], threw |-> FALSE], events, 1, c, hs)
  IN /\ http' = hs
     /\ promise' = [promise EXCEPT ![c] = st.p]
     /\ uncaught' = IF st.threw THEN uncaught \cup {c} ELSE uncaught
     /\ net' = [net EXCEPT ![c] = stage]
     /\ UNCHANGED <<backend, ncalls, call, trace, wire, before>>

\* The echo back end's response to call c arrives: readystatechange, load, loadend.
Load(c) ==
  /\ backend = "echo"
  /\ net[c].stage = "response"
  /\ Complete(c, XhrDone(http[c], net[c].status, net[c].body), LoadEvents,
              [net[c] EXCEPT !.stage = "done"])
  /\ UNCHANGED store

\* A back end that answers with any status and any body (it keeps no state, so
\* its answer is only seen when it arrives): the response to call c arrives.
LoadArbitrary(c, status, body) ==
  /\ backend = "arbitrary"
  /\ net[c].stage = "request"
  /\ Complete(c, XhrDone(http[c], status, body), LoadEvents,
              [stage |-> "done", status |-> status, body |-> body])
  /\ UNCHANGED store

\* Call c's exchange ends in a network error, before or after the back end has
\* answered: readystatechange, error, loadend.
NetworkError(c) ==
  /\ net[c].stage \in {"request", "response"}
  /\ Complete(c, XhrNetworkError(http[c]), ErrorEvents,
              [stage |-> "failed", status |-> 0, body |-> <<>>])
  /\ UNCHANGED store

Next ==
  \/ \E u \in Urls : get(u)
  \/ \E u \in Urls, d \in PostData : post(u, d)
  \/ \E c \in Calls : ServerEcho(c)
  \/ \E c \in Calls : Load(c)
  \/ \E c \in Calls, s \in Statuses, b \in Bodies : LoadArbitrary(c, s, b)
  \/ \E c \in Calls : NetworkError(c)

Spec == Init /\ [][Next]_vars

----------------------------------------------------------------------------
(* Properties *)

Made == 1..ncalls
Gets == {c \in Made : call[c].fn = "get"}
Posts == {c \in Made : call[c].fn = "post"}

\* The load event of call c has fired; net[c] then holds the response it carried.
Loaded(c) == net[c].stage = "done"
ValidJSON(text) == JSONParse(text).ok
Fulfilled(status, data) ==
  [state |-> "fulfilled", value |-> [status |-> status, data |-> data]]
RequestsOf(c) == {i \in 1..Len(wire) : wire[i].from = c}

\* {"score":5}
ScoreText == << P("{"), TStr("score"), P(":"), TNum(5), P("}") >>

\* C1: once the load event of a get has fired with status s and a body b that is
\* valid JSON, the promise is fulfilled with {status: s, data: the decoded b};
\* 200 with {"id":"alice","score":5} gives {status: 200, data: {id: "alice", score: 5}}.
C1_GetResolves ==
  \A c \in Gets :
    Loaded(c) /\ ValidJSON(net[c].body) =>
      /\ promise[c] = Fulfilled(net[c].status, JSONParse(net[c].body).v)
      /\ net[c].body = UserText => promise[c].value.data = UserValue
      /\ net[c].body = ErrorText => promise[c].value.data = ErrorValue

C1_Witness ==
  \E c \in Gets :
    /\ Loaded(c) /\ net[c].status = 200 /\ net[c].body = UserText
    /\ promise[c] = Fulfilled(200, UserValue)

\* C2: for get and post alike, a response with a 4xx or 5xx status and a valid JSON
\* body fulfils the promise with that status and the decoded payload (400 with
\* {"Error":"bad score"} gives {status: 400, data: {Error: "bad score"}}), and no
\* promise is rejected once its response has arrived.
C2_ErrorStatusResolves ==
  \A c \in Made :
    Loaded(c) =>
      /\ promise[c].state # "rejected"
      /\ net[c].status >= 400 /\ ValidJSON(net[c].body) =>
           promise[c] = Fulfilled(net[c].status, JSONParse(net[c].body).v)
      /\ net[c].status = 400 /\ net[c].body = ErrorText =>
           promise[c] = Fulfilled(400, ErrorValue)

C2_Witness ==
  \E g \in Gets, p \in Posts :
    /\ Loaded(g) /\ net[g].status = 400 /\ net[g].body = ErrorText
    /\ Loaded(p) /\ net[p].status = 500 /\ net[p].body = ErrorText
    /\ promise[g] = Fulfilled(400, ErrorValue)
    /\ promise[p] = Fulfilled(500, ErrorValue)

\* C3: when the load event fires with a body that is not valid JSON, the promise
\* is rejected (it neither resolves nor stays pending).
C3_InvalidBodyRejects ==
  \A c \in Made :
    Loaded(c) /\ ~ValidJSON(net[c].body) => promise[c].state = "rejected"

\* C4: every post sends exactly one request: a POST to its url, with the header
\* Content-Type: application/json and the JSON text of data as its body
\* ({"score":5} for {score: 5}); every get sends exactly one request: a GET to its
\* url, with no body and no header.
C4_RequestSent ==
  \A c \in Made :
    /\ Cardinality(RequestsOf(c)) = 1
    /\ \A i \in RequestsOf(c) :
         /\ wire[i].url = call[c].url
         /\ call[c].fn = "post" =>
              /\ wire[i].method = "POST"
              /\ wire[i].headers = << <<"Content-Type", "application/json">> >>
              /\ wire[i].body = Body(JSONStringify(call[c].data).text)
              /\ call[c].data = Obj(<< <<"score", Num(5)>> >>) =>
                   wire[i].body.text = ScoreText
         /\ call[c].fn = "get" =>
              /\ wire[i].method = "GET"
              /\ wire[i].headers = <<>>
              /\ wire[i].body = NoBody

C4_Witness ==
  \E g \in Gets, p \in Posts :
    /\ call[p].data = Obj(<< <<"score", Num(5)>> >>)
    /\ \E i \in RequestsOf(p) : wire[i].method = "POST" /\ wire[i].body.text = ScoreText
    /\ \E i \in RequestsOf(g) : wire[i].method = "GET"

\* C5: a post and a get whose exchanges ended the same way (the same response, or
\* a network error) leave their promises in the same state with the same value,
\* whatever data was posted.
C5_PostLikeGet ==
  \A g \in Gets, p \in Posts :
    net[g] = net[p] /\ net[g].stage \in {"done", "failed"} => promise[g] = promise[p]

C5_Witness ==
  \E g \in Gets, p \in Posts :
    /\ Loaded(g) /\ net[g] = net[p]
    /\ net[g].status = 400
    /\ promise[g].state = "fulfilled" /\ promise[p] = promise[g]

\* C6: a promise is pending until the load event of its own call fires, it is
\* settled only by that event, and once settled it never changes.
C6_SingleShot ==
  /\ [](\A c \in Made : promise[c].state # "pending" => Loaded(c))
  /\ [][\A c \in Calls :
          /\ promise[c].state = "pending" /\ promise'[c] # promise[c] =>
               net[c].stage # "done" /\ net'[c].stage = "done"
          /\ promise[c].state \in {"fulfilled", "rejected"} => promise'[c] = promise[c]]_vars

\* A promise is fulfilled and the other call's exchange has ended too.
C6_Witness ==
  \E c \in Made, d \in Made :
    /\ c # d
    /\ promise[c].state = "fulfilled"
    /\ net[d].stage \in {"done", "failed"}

\* What a call's promise is when the call runs alone and its exchange is as n says.
Alone(n) ==
  IF n.stage = "done" /\ ValidJSON(n.body)
  THEN Fulfilled(n.status, JSONParse(n.body).v)
  ELSE Pending

\* C7: with several calls outstanding and their events in any order, each promise
\* is what it would be had its call run alone: it carries the status and decoded
\* body of its own response only.
C7_Independent ==
  \A c \in Made : promise[c] = Alone(net[c])

\* Two calls are outstanding at once and the later one is answered first: its
\* promise carries its own response while the earlier call is still in flight.
C7_Witness ==
  \E c \in Made, d \in Made :
    /\ c < d
    /\ net[c].stage = "request" /\ promise[c] = Pending
    /\ Loaded(d) /\ net[d].status = 500 /\ net[d].body = UserText
    /\ promise[d] = Fulfilled(500, UserValue)

RECURSIVE IsJSONValue(_)
\* A value of the JSON data model: no NaN and no undefined anywhere in it.
IsJSONValue(v) ==
  CASE v.t \in {"null", "boolean", "number", "string"} -> TRUE
    [] v.t = "object" -> \A i \in 1..Len(v.m) : IsJSONValue(v.m[i][2])
    [] v.t = "array" -> \A i \in 1..Len(v.e) : IsJSONValue(v.e[i])
    [] OTHER -> FALSE

\* Against the echo back end, get g was made after post p, the only post to its
\* url, had completed, and g's response has arrived.
RoundTrip(p, g) ==
  /\ backend = "echo"
  /\ p \in Posts /\ g \in Gets
  /\ p \in before[g]
  /\ \A q \in Posts : call[q].url = call[p].url => q = p
  /\ Loaded(g)

\* C8 as stated: for every value X that JSON.stringify accepts, post(url, X)
\* followed after its completion by get(url) gives a result whose data equals X.
C8_RoundTrip ==
  \A p \in Made, g \in Made :
    RoundTrip(p, g) => promise[g] = Fulfilled(200, call[p].data)

\* C8, amended: the same for every X of the JSON data model (null, booleans,
\* finite numbers, strings, arrays and plain objects of these).
C8_RoundTripJSONValues ==
  \A p \in Made, g \in Made :
    RoundTrip(p, g) /\ IsJSONValue(call[p].data) =>
      promise[g] = Fulfilled(200, call[p].data)

C8_Witness ==
  \E p \in Made, g \in Made :
    /\ RoundTrip(p, g)
    /\ call[p].data = Obj(<< <<"score", Num(5)>> >>)
    /\ promise[g] = Fulfilled(200, Obj(<< <<"score", Num(5)>> >>))

\* C9: a call whose request ended without a load event has a promise that is
\* pending, neither fulfilled nor rejected (an ended exchange stays ended, so this
\* is so in every later state).
C9_NetworkErrorPending ==
  \A c \in Made :
    net[c].stage = "failed" => promise[c] = Pending /\ c \notin uncaught

\* A request has failed and, the other call having been fulfilled, its promise is
\* still pending.
C9_Witness ==
  \E c \in Made, d \in Made :
    /\ net[c].stage = "failed" /\ promise[c] = Pending
    /\ http[c].readyState = "DONE"
    /\ promise[d].state = "fulfilled"

\* C10: in each call the load handler is registered before open, open comes
\* before setRequestHeader, and (for post) setRequestHeader before send; so no
\* operation is invoked in a state that refuses it (the executor throws nothing
\* and the request is sent), and the handler is in place when an event fires.
C10_OperationOrder ==
  \A c \in Made :
    LET t == trace[c] IN
    /\ \A i \in 1..Len(t) :
         /\ t[i].op = "open" => t[i].onload /\ t[i].readyState = "UNSENT"
         /\ t[i].op = "setRequestHeader" => t[i].readyState = "OPENED" /\ ~t[i].sendFlag
         /\ t[i].op = "send" =>
              /\ t[i].readyState = "OPENED" /\ ~t[i].sendFlag /\ t[i].onload
              /\ call[c].fn = "post" => \E j \in 1..(i - 1) : t[j].op = "setRequestHeader"
    /\ \E i \in 1..Len(t) : t[i].op = "send"
    /\ promise[c].state # "rejected"
    /\ net[c].stage # "idle"
    /\ http[c].handlers["load"] # "null"

C10_Witness ==
  \E c \in Posts :
    /\ Loaded(c)
    /\ [i \in 1..Len(trace[c]) |-> trace[c][i].op]
         = <<"sethandler", "open", "setRequestHeader", "send">>

====
